---------------------------- MODULE Spec2Model ----------------------------
(***************************************************************************)
(* Model of backup.py: the SHA-256 tree hash (sha256tree, chunk_sha256,    *)
(* combine_sha256) and the multipart upload (upload_file, upload_parts).   *)
(*                                                                         *)
(* SHA-256 is modelled as a collision-free constructor: the hash of a byte *)
(* string is the tuple <<"sha256", bytes>>, and the hash of the            *)
(* concatenation of two raw digests is the tuple <<"sha256", left, right>>.*)
(* Byte strings are sequences of small naturals.  The 1 MiB leaf size of   *)
(* the tree hash is scaled down to MiB bytes.                              *)
(***************************************************************************)
EXTENDS Integers, Sequences, FiniteSets, TLC

\* ------------------------------------------------------------------ bounds
\* the 1 MiB leaf chunk of the tree hash (2**20 in the source), scaled down
MiB == 2
\* longest file, in bytes
MaxFileLen == 10
\* largest part size handed to upload_file, in bytes
MaxPartSize == 8
\* longest list of hashes handed directly to combine_sha256
MaxHashes == 5
\* number of distinct upload ids the remote service may return
MaxUploadIds == 2
\* number of multipart uploads that may be open in the vault
MaxSessions == 3

VARIABLES
    \* ---- one run of upload_file
    file,       \* the content of the file fname, a byte string
    psize,      \* partsize
    pc,         \* position of the run in upload_file / upload_parts
    fsize,      \* os.stat(fname).st_size
    muid,       \* job_response['uploadId']
    fpos,       \* read position of the handle f in upload_parts
    partno,     \* count() in upload_parts
    shas,       \* the list shas of upload_parts, hashlist of upload_file
    total_sha,  \* total_sha of upload_file
    calls,      \* the remote calls made so far, in order
    tsvlog,     \* the 'part:..\tchecksum:..' lines of glacier-upload.log
    result,     \* how upload_file ended
    \* ---- one call of sha256tree or of combine_sha256
    cpc,        \* position of the call
    thing,      \* the argument of sha256tree
    hashlist,   \* the argument of combine_sha256
    output,     \* the level held by the loop of combine_sha256
    rounds,     \* iterations of the while loop so far
    cresult,    \* how the call ended
    \* ---- one call of abort_uploads
    apc,        \* position of the call
    bound,      \* whether the names client and vault are bound in the module
    sessions,   \* the multipart uploads open in the vault
    mpus,       \* the list mpus of abort_uploads
    acalls,     \* the remote calls made so far, in order
    aresult,    \* how the call ended
    \* ---- all
    handles,    \* number of open file handles
    opens       \* number of times a file was opened

uvars == <<file, psize, pc, fsize, muid, fpos, partno, shas, total_sha,
           calls, tsvlog, result>>
hvars == <<cpc, thing, hashlist, output, rounds, cresult>>
avars == <<apc, bound, sessions, mpus, acalls, aresult>>
vars == <<uvars, hvars, avars, handles, opens>>

\* ------------------------------------------------------------- outcomes
None == <<"None">>
Return(v) == <<"return", v>>
Raise(e) == <<"raise", e>>
IsReturn(r) == r[1] = "return"
IsRaise(r) == r[1] = "raise"

Min(a, b) == IF a < b THEN a ELSE b

\* --------------------------------------------------------------- hashing
\* hashlib.sha256(c) of a byte string c
sha256(c) == <<"sha256", c>>

\* hashlib.sha256(l.digest() + r.digest())
sha256cat(l, r) == <<"sha256", l, r>>

\* h.hexdigest(): the hex form of a hash
hexdigest(h) == <<"hex", h>>

\* stream.read(n) at position pos of the byte string b
read(b, pos, n) == SubSeq(b, pos + 1, Min(pos + n, Len(b)))

\* iter(partial(bstream.read, 2**20), b'') from position pos, each chunk hashed
RECURSIVE chunks_from(_, _)
chunks_from(b, pos) ==
    LET c == read(b, pos, MiB)
    IN  IF c = <<>> THEN <<>>
        ELSE <<sha256(c)>> \o chunks_from(b, pos + Len(c))

chunk_sha256(bstream) == chunks_from(bstream, 0)

\* output[::2]
lefts(out) == [i \in 1..((Len(out) + 1) \div 2) |-> out[2 * i - 1]]
\* rights slicing from index 0 like lefts
rights_fromzero(out) == [i \in 1..((Len(out) + 1) \div 2) |-> out[2 * i - 1]]

\* output[1::2]
rights(out) == [i \in 1..(Len(out) \div 2) |-> out[2 * i]]

\* zip_hash with the right digest before the left one
zip_hash_swapped(ls, rs) ==
    [i \in 1..Min(Len(ls), Len(rs)) |-> sha256cat(rs[i], ls[i])]

\* [sha256(l.digest() + r.digest()) for l, r in zip(lefts, rights)]
zip_hash(ls, rs) == [i \in 1..Min(Len(ls), Len(rs)) |-> sha256cat(ls[i], rs[i])]

\* combine_round without lines 203-204: the unpaired last node is dropped
combine_round_nocarry(out) == zip_hash(lefts(out), rights(out))

\* combine_round hashing the unpaired last node with itself
combine_round_dup(out) ==
    LET new_out == zip_hash(lefts(out), rights(out))
        last == out[Len(out)]
    IN  IF Len(out) % 2 = 1 THEN Append(new_out, sha256cat(last, last)) ELSE new_out

\* one iteration of the while loop of combine_sha256
combine_round(out) ==
    LET new_out == zip_hash(lefts(out), rights(out))
    IN  IF Len(out) % 2 = 1 THEN Append(new_out, out[Len(out)]) ELSE new_out

\* combine_sha256(hashlist); output[0] of an empty list raises IndexError
RECURSIVE combine_sha256(_)
combine_sha256(hl) ==
    IF Len(hl) > 1 THEN combine_sha256(combine_round(hl))
    ELSE IF Len(hl) = 0 THEN Raise("IndexError")
    ELSE Return(hl[1])

\* sha256tree(thing) for a bytes object or an open stream at position 0
sha256tree(b) == combine_sha256(chunk_sha256(b))

\* ---------------------------------------------------------------- inputs
\* the file of length n with the deterministic content i |-> (i * m) % 3
FileOf(n, m) == [i \in 1..n |-> (i * m) % 3]
Files == {FileOf(n, m) : n \in 0..MaxFileLen, m \in 0..1}
PartSizes == 1..MaxPartSize
UploadIds == 1..MaxUploadIds

RECURSIVE SeqsUpTo(_, _)
SeqsUpTo(S, n) ==
    IF n = 0 THEN {<<>>}
    ELSE LET shorter == SeqsUpTo(S, n - 1)
         IN  shorter \cup {Append(s, x) : s \in {t \in shorter : Len(t) = n - 1}, x \in S}

LeafHashes == {sha256(<<b>>) : b \in 0..2}
HashLists == SeqsUpTo(LeafHashes, MaxHashes)

\* ------------------------------------------------------- initial states
UploadIdle ==
    /\ file = <<>> /\ psize = 1 /\ pc = "none" /\ fsize = 0 /\ muid = 0
    /\ fpos = 0 /\ partno = 0 /\ shas = <<>> /\ total_sha = None
    /\ calls = <<>> /\ tsvlog = <<>> /\ result = None

HashIdle ==
    /\ cpc = "none" /\ thing = None /\ hashlist = <<>> /\ output = <<>>
    /\ rounds = 0 /\ cresult = None

AbortIdle ==
    /\ apc = "none" /\ bound = FALSE /\ sessions = {} /\ mpus = <<>>
    /\ acalls = <<>> /\ aresult = None

\* a run of upload_file(fname, partsize=psize) about to start
Init ==
    /\ file \in Files
    /\ psize \in PartSizes
    /\ pc = "idle"
    /\ fsize = 0 /\ muid = 0 /\ fpos = 0 /\ partno = 0
    /\ shas = <<>> /\ total_sha = None
    /\ calls = <<>> /\ tsvlog = <<>> /\ result = None
    /\ handles = 0
    /\ opens = 0
    /\ HashIdle
    /\ AbortIdle

\* --------------------------------------------------------- remote calls
\* WireRange with the exclusive end on the wire
WireRange_exclusive(start, end) ==
    "bytes " \o ToString(start) \o "-" \o ToString(end) \o "/*"

\* range='bytes %s-%s/*' % (start, end-1)
WireRange(start, end) ==
    "bytes " \o ToString(start) \o "-" \o ToString(end - 1) \o "/*"

\* client.initiate_multipart_upload(vaultName, archiveDescription, partSize)
\* and the uploadId of its response (0 when the call raises)
InitiateCall(ok, id) ==
    [op |-> "initiate", ok |-> ok, partSize |-> ToString(psize), returned |-> id]

\* client.upload_multipart_part(vaultName, uploadId, checksum, range, body)
UploadPartCall(ok, sha, start, end, chunk) ==
    [op |-> "upload_part", ok |-> ok, uploadId |-> muid,
     checksum |-> hexdigest(sha), range |-> WireRange(start, end), body |-> chunk]

\* CompleteCall with the archive size taken as number of parts times part size
CompleteCall_fullparts(ok) ==
    [op |-> "complete", ok |-> ok, uploadId |-> muid,
     checksum |-> hexdigest(total_sha), archiveSize |-> ToString(partno * psize)]

\* client.complete_multipart_upload(vaultName, uploadId, checksum, archiveSize)
CompleteCall(ok) ==
    [op |-> "complete", ok |-> ok, uploadId |-> muid,
     checksum |-> hexdigest(total_sha), archiveSize |-> ToString(fsize)]

\* the values response['checksum'] of an upload-part call may hold: the
\* checksum that was sent, or another one
ResponseChecksums(sha) == {hexdigest(sha), hexdigest(sha256(<<>>))}

\* -------------------------------------------------------- upload_file
\* lines 102-114, the initiate call returns an upload id
InitiateOk ==
    /\ pc = "idle"
    /\ fsize' = Len(file)
    /\ \E id \in UploadIds :
           /\ calls' = Append(calls, InitiateCall(TRUE, id))
           /\ muid' = id
    /\ pc' = "initiated"
    /\ UNCHANGED <<file, psize, fpos, partno, shas, total_sha, tsvlog, result,
                   hvars, avars, opens, handles>>

\* InitiateFail with the error of the initiate call ignored: the run goes on
\* without an upload id
InitiateFail_ignored ==
    /\ pc = "idle"
    /\ fsize' = Len(file)
    /\ calls' = Append(calls, InitiateCall(FALSE, 0))
    /\ pc' = "initiated"
    /\ UNCHANGED <<file, psize, muid, fpos, partno, shas, total_sha, tsvlog,
                   result, hvars, avars, opens, handles>>

\* lines 102-111, the initiate call raises: upload_file ends with the error
InitiateFail ==
    /\ pc = "idle"
    /\ fsize' = Len(file)
    /\ calls' = Append(calls, InitiateCall(FALSE, 0))
    /\ pc' = "raised"
    /\ result' = Raise("RemoteError")
    /\ UNCHANGED <<file, psize, muid, fpos, partno, shas, total_sha, tsvlog,
                   hvars, avars, opens, handles>>

\* line 116 and lines 141-148: upload_parts is entered and opens the file
OpenParts ==
    /\ pc = "initiated"
    /\ shas' = <<>>
    /\ fpos' = 0
    /\ partno' = 0
    /\ handles' = handles + 1
    /\ opens' = opens + 1
    /\ pc' = "uploading"
    /\ UNCHANGED <<file, psize, fsize, muid, total_sha, calls, tsvlog, result,
                   hvars, avars>>

\* the chunk the next f.read(psize) returns
NextChunk == read(file, fpos, psize)

\* PartStart with parts counted from 1
PartStart_onebased(n) == (n + 1) * psize

\* line 150: start = partno * psize
PartStart(n) == n * psize

\* ChunkSha with the plain hash of the part in place of its tree hash
ChunkSha_plain(chunk) == sha256(chunk)

\* the hash sha256tree(chunk) appends to shas (a chunk of the loop is never empty)
ChunkSha(chunk) == sha256tree(chunk)[2]

\* UploadPartOk keeping the checksum of the response in shas in place of the
\* locally computed hash
UploadPartOk_trusting ==
    /\ pc = "uploading"
    /\ NextChunk # <<>>
    /\ LET chunk == NextChunk
           start == PartStart(partno)
           end == start + Len(chunk)
           sha == ChunkSha(chunk)
       IN  /\ calls' = Append(calls, UploadPartCall(TRUE, sha, start, end, chunk))
           /\ \E checksum \in ResponseChecksums(sha) :
                  /\ tsvlog' = Append(tsvlog, [part |-> partno, checksum |-> checksum])
                  /\ shas' = Append(shas, checksum[2])
           /\ fpos' = fpos + Len(chunk)
           /\ partno' = partno + 1
    /\ UNCHANGED <<file, psize, pc, fsize, muid, total_sha, result, hvars, avars,
                   opens, handles>>

\* lines 149-161, one iteration whose upload-part call succeeds
UploadPartOk ==
    /\ pc = "uploading"
    /\ NextChunk # <<>>
    /\ LET chunk == NextChunk
           start == PartStart(partno)
           end == start + Len(chunk)
           sha == ChunkSha(chunk)
       IN  /\ shas' = Append(shas, sha)
           /\ calls' = Append(calls, UploadPartCall(TRUE, sha, start, end, chunk))
           /\ \E checksum \in ResponseChecksums(sha) :
                  tsvlog' = Append(tsvlog, [part |-> partno, checksum |-> checksum])
           /\ fpos' = fpos + Len(chunk)
           /\ partno' = partno + 1
    /\ UNCHANGED <<file, psize, pc, fsize, muid, total_sha, result, hvars, avars, opens, handles>>

\* UploadPartFail with the error caught inside the loop, which goes on with
\* the next part
UploadPartFail_swallow ==
    /\ pc = "uploading"
    /\ NextChunk # <<>>
    /\ LET chunk == NextChunk
           start == PartStart(partno)
           end == start + Len(chunk)
           sha == ChunkSha(chunk)
       IN  /\ shas' = Append(shas, sha)
           /\ calls' = Append(calls, UploadPartCall(FALSE, sha, start, end, chunk))
           /\ fpos' = fpos + Len(chunk)
    /\ partno' = partno + 1
    /\ UNCHANGED <<file, psize, pc, fsize, muid, total_sha, tsvlog, result,
                   hvars, avars, opens, handles>>

\* UploadPartFail of a loop that opens the file without a with statement: the
\* error leaves the handle open
UploadPartFail_leak ==
    /\ pc = "uploading"
    /\ NextChunk # <<>>
    /\ LET chunk == NextChunk
           start == PartStart(partno)
           end == start + Len(chunk)
           sha == ChunkSha(chunk)
       IN  /\ shas' = Append(shas, sha)
           /\ calls' = Append(calls, UploadPartCall(FALSE, sha, start, end, chunk))
           /\ fpos' = fpos + Len(chunk)
    /\ pc' = "raised"
    /\ result' = Raise("RemoteError")
    /\ UNCHANGED <<file, psize, fsize, muid, partno, total_sha, tsvlog,
                   hvars, avars, opens, handles>>

\* lines 149-159, one iteration whose upload-part call raises: the with
\* statement closes the file and the error leaves upload_parts and upload_file
UploadPartFail ==
    /\ pc = "uploading"
    /\ NextChunk # <<>>
    /\ LET chunk == NextChunk
           start == PartStart(partno)
           end == start + Len(chunk)
           sha == ChunkSha(chunk)
       IN  /\ shas' = Append(shas, sha)
           /\ calls' = Append(calls, UploadPartCall(FALSE, sha, start, end, chunk))
           /\ fpos' = fpos + Len(chunk)
    /\ handles' = handles - 1
    /\ pc' = "raised"
    /\ result' = Raise("RemoteError")
    /\ UNCHANGED <<file, psize, fsize, muid, partno, total_sha, tsvlog, hvars, avars, opens>>

\* lines 149 and 162: f.read returns b'', the loop ends, the file is closed
\* and shas is returned to upload_file as hashlist
PartsReturn ==
    /\ pc = "uploading"
    /\ NextChunk = <<>>
    /\ handles' = handles - 1
    /\ pc' = "combining"
    /\ UNCHANGED <<file, psize, fsize, muid, fpos, partno, shas, total_sha,
                   calls, tsvlog, result, hvars, avars, opens>>

\* line 118: total_sha = combine_sha256(hashlist)
Combine ==
    /\ pc = "combining"
    /\ LET r == combine_sha256(shas)
       IN  IF IsReturn(r)
           THEN /\ total_sha' = r[2]
                /\ pc' = "closing"
                /\ UNCHANGED result
           ELSE /\ pc' = "raised"
                /\ result' = r
                /\ UNCHANGED total_sha
    /\ UNCHANGED <<file, psize, fsize, muid, fpos, partno, shas, calls, tsvlog,
                   hvars, avars, opens, handles>>

\* lines 120-130, the complete call succeeds
CompleteOk ==
    /\ pc = "closing"
    /\ calls' = Append(calls, CompleteCall(TRUE))
    /\ pc' = "completed"
    /\ result' = Return(None)
    /\ UNCHANGED <<file, psize, fsize, muid, fpos, partno, shas, total_sha,
                   tsvlog, hvars, avars, opens, handles>>

\* lines 120-126, the complete call raises
CompleteFail ==
    /\ pc = "closing"
    /\ calls' = Append(calls, CompleteCall(FALSE))
    /\ pc' = "raised"
    /\ result' = Raise("RemoteError")
    /\ UNCHANGED <<file, psize, fsize, muid, fpos, partno, shas, total_sha,
                   tsvlog, hvars, avars, opens, handles>>

Next ==
    \/ InitiateOk
    \/ InitiateFail
    \/ OpenParts
    \/ UploadPartOk
    \/ UploadPartFail
    \/ PartsReturn
    \/ Combine
    \/ CompleteOk
    \/ CompleteFail

Spec == Init /\ [][Next]_vars

\* ------------------------------------- sha256tree and combine_sha256
\* the arguments of sha256tree: a bytes object, an open stream, the path of
\* a file (each with the bytes it holds), or anything else
Things ==
    {<<kind, b>> : kind \in {"bytes", "stream", "str"}, b \in Files}
        \cup {<<"other", <<>>>>}

\* a call of sha256tree(thing), or a call of combine_sha256(hashlist)
InitHash ==
    /\ \/ /\ cpc = "sha256tree"
          /\ thing \in Things
          /\ hashlist = <<>>
       \/ /\ cpc = "combine_sha256"
          /\ thing = None
          /\ hashlist \in HashLists
    /\ output = hashlist
    /\ rounds = 0
    /\ cresult = None
    /\ handles = 0
    /\ opens = 0
    /\ UploadIdle
    /\ AbortIdle

\* the handles left open when the call of sha256tree ends: the with
\* statement of lines 184-185 closes the file the path variant opened
Released == IF thing[1] = "file" THEN handles - 1 ELSE handles

\* lines 183-185: the path variant opens the file and hashes the stream
TreeOpen ==
    /\ cpc = "sha256tree"
    /\ thing[1] = "str"
    /\ thing' = <<"file", thing[2]>>
    /\ handles' = handles + 1
    /\ opens' = opens + 1
    /\ UNCHANGED <<cpc, hashlist, output, rounds, cresult, uvars, avars>>

\* lines 179-182 and 188-189: the stream is chunked, the leaves are hashed
\* and handed to combine_sha256
TreeChunk ==
    /\ cpc = "sha256tree"
    /\ thing[1] \in {"bytes", "stream", "file"}
    /\ hashlist' = chunk_sha256(thing[2])
    /\ output' = hashlist'
    /\ cpc' = "combine_sha256"
    /\ UNCHANGED <<thing, rounds, cresult, uvars, avars, opens, handles>>

\* lines 186-187
TreeInvalid ==
    /\ cpc = "sha256tree"
    /\ thing[1] = "other"
    /\ cresult' = Raise("ValueError")
    /\ cpc' = "raised"
    /\ UNCHANGED <<thing, hashlist, output, rounds, uvars, avars, opens, handles>>

\* lines 200-205: one iteration of the while loop
CombineRound ==
    /\ cpc = "combine_sha256"
    /\ Len(output) > 1
    /\ output' = combine_round(output)
    /\ rounds' = rounds + 1
    /\ UNCHANGED <<cpc, thing, hashlist, cresult, uvars, avars, opens, handles>>

\* CombineReturn of a loop that runs its body before testing the length
CombineReturn_dowhile ==
    /\ cpc = "combine_sha256"
    /\ Len(output) = 1
    /\ output' = combine_round(output)
    /\ rounds' = rounds + 1
    /\ cresult' = Return(output'[1])
    /\ cpc' = "returned"
    /\ handles' = Released
    /\ UNCHANGED <<thing, hashlist, uvars, avars, opens>>

\* line 206 with one node left: return output[0]
CombineReturn ==
    /\ cpc = "combine_sha256"
    /\ Len(output) = 1
    /\ cresult' = Return(output[1])
    /\ cpc' = "returned"
    /\ handles' = Released
    /\ UNCHANGED <<thing, hashlist, output, rounds, uvars, avars, opens>>

\* CombineRaise returning the hash of the empty string for an empty list
CombineRaise_default ==
    /\ cpc = "combine_sha256"
    /\ Len(output) = 0
    /\ cresult' = Return(sha256(<<>>))
    /\ cpc' = "returned"
    /\ handles' = Released
    /\ UNCHANGED <<thing, hashlist, output, rounds, uvars, avars, opens>>

\* line 206 with no node: output[0] raises IndexError
CombineRaise ==
    /\ cpc = "combine_sha256"
    /\ Len(output) = 0
    /\ cresult' = Raise("IndexError")
    /\ cpc' = "raised"
    /\ handles' = Released
    /\ UNCHANGED <<thing, hashlist, output, rounds, uvars, avars, opens>>

NextHash ==
    \/ TreeOpen
    \/ TreeChunk
    \/ TreeInvalid
    \/ CombineRound
    \/ CombineReturn
    \/ CombineRaise

SpecHash == InitHash /\ [][NextHash]_vars

\* the call runs on until it returns or raises: nothing suspends it
SpecHashFair == SpecHash /\ WF_vars(NextHash)

\* the operations that open a file: a run of upload_file, or a call of
\* sha256tree or combine_sha256
InitFiles == Init \/ InitHash
NextFiles == Next \/ NextHash
SpecFiles == InitFiles /\ [][NextFiles]_vars

\* ------------------------------------------------------ abort_uploads
\* the orders in which list_multipart_uploads may report the uploads in S
RECURSIVE Orders(_)
Orders(S) ==
    IF S = {} THEN {<<>>}
    ELSE UNION {{<<[MultipartUploadId |-> x]>> \o rest : rest \in Orders(S \ {x})} : x \in S}

\* a call of abort_uploads() with some uploads open in the vault; the module
\* binds neither client nor vault, so they are bound only if the importing
\* program has bound them
InitAbort ==
    /\ apc = "start"
    /\ bound \in BOOLEAN
    /\ sessions \in SUBSET (1..MaxSessions)
    /\ mpus = <<>>
    /\ acalls = <<>>
    /\ aresult = None
    /\ handles = 0
    /\ opens = 0
    /\ UploadIdle
    /\ HashIdle

\* the element of mpus the for loop is at: one abort call was made for each
\* element before it
AbortIndex == Len(SelectSeq(acalls, LAMBDA c : c.op = "abort")) + 1

\* line 134 with client or vault unbound: the name lookup raises NameError
AbortNameError ==
    /\ apc = "start"
    /\ ~bound
    /\ aresult' = Raise("NameError")
    /\ apc' = "raised"
    /\ UNCHANGED <<bound, sessions, mpus, acalls, uvars, hvars, handles, opens>>

\* line 134: client.list_multipart_uploads(vaultName=vault) returns the
\* open uploads
AbortList ==
    /\ apc = "start"
    /\ bound
    /\ mpus' \in Orders(sessions)
    /\ acalls' = Append(acalls, [op |-> "list", ok |-> TRUE])
    /\ apc' = "looping"
    /\ UNCHANGED <<bound, sessions, aresult, uvars, hvars, handles, opens>>

\* line 134, the list call raises
AbortListFail ==
    /\ apc = "start"
    /\ bound
    /\ acalls' = Append(acalls, [op |-> "list", ok |-> FALSE])
    /\ aresult' = Raise("RemoteError")
    /\ apc' = "raised"
    /\ UNCHANGED <<bound, sessions, mpus, uvars, hvars, handles, opens>>

\* lines 135-136, one iteration: abort_multipart_upload succeeds
AbortOne ==
    /\ apc = "looping"
    /\ AbortIndex <= Len(mpus)
    /\ LET id == mpus[AbortIndex].MultipartUploadId
       IN  /\ acalls' = Append(acalls, [op |-> "abort", ok |-> TRUE, uploadId |-> id])
           /\ sessions' = sessions \ {id}
    /\ UNCHANGED <<apc, bound, mpus, aresult, uvars, hvars, handles, opens>>

\* lines 135-136, one iteration: abort_multipart_upload raises
AbortOneFail ==
    /\ apc = "looping"
    /\ AbortIndex <= Len(mpus)
    /\ LET id == mpus[AbortIndex].MultipartUploadId
       IN  acalls' = Append(acalls, [op |-> "abort", ok |-> FALSE, uploadId |-> id])
    /\ aresult' = Raise("RemoteError")
    /\ apc' = "raised"
    /\ UNCHANGED <<bound, sessions, mpus, uvars, hvars, handles, opens>>

\* line 135 with mpus exhausted: abort_uploads returns
AbortReturn ==
    /\ apc = "looping"
    /\ AbortIndex > Len(mpus)
    /\ aresult' = Return(None)
    /\ apc' = "returned"
    /\ UNCHANGED <<bound, sessions, mpus, acalls, uvars, hvars, handles, opens>>

NextAbort ==
    \/ AbortNameError
    \/ AbortList
    \/ AbortListFail
    \/ AbortOne
    \/ AbortOneFail
    \/ AbortReturn

SpecAbort == InitAbort /\ [][NextAbort]_vars

\* ======================================================================
\* Properties
\* ======================================================================
UploadPartCalls == SelectSeq(calls, LAMBDA c : c.op = "upload_part")
OkPartCalls == SelectSeq(calls, LAMBDA c : c.op = "upload_part" /\ c.ok)
CompleteCalls == SelectSeq(calls, LAMBDA c : c.op = "complete")

IsPow2(n) == \E k \in 0..n : 2 ^ k = n
\* the part size is 1 MiB times a power of two
IsPow2Chunks(p) == p % MiB = 0 /\ IsPow2(p \div MiB)

CeilDiv(a, b) == (a + b - 1) \div b

\* the bodies of the first k calls of cs, concatenated
RECURSIVE Bodies(_, _)
Bodies(cs, k) == IF k = 0 THEN <<>> ELSE Bodies(cs, k - 1) \o cs[k].body

\* upload_parts has returned its list of hashes to upload_file
PartsReturned == pc \in {"combining", "closing", "completed"}

\* ---------------------------------------------------------------- C1
\* C1: for a non-empty file and a part size of 2^k MiB, the root combined
\* from the per-part tree hashes that upload_parts returns equals the root
\* sha256tree computes over the whole file.
C1_PartsRootIsTreeRoot ==
    (PartsReturned /\ Len(file) > 0 /\ IsPow2Chunks(psize))
        => combine_sha256(shas) = sha256tree(file)

\* a file of exactly 2.5 part sizes, two MiB per part, has been uploaded
\* in three parts, the last one short
C1_Witness ==
    /\ pc = "combining"
    /\ psize = 2 * MiB
    /\ 2 * Len(file) = 5 * psize
    /\ Len(shas) = 3
    /\ Len(UploadPartCalls[3].body) < psize
    /\ combine_sha256(shas) = sha256tree(file)

\* ---------------------------------------------------------------- C2
\* C2: complete is called only when the root combined from the part hashes
\* is identical to the tree hash of the whole file; when the two differ,
\* complete is never called.
C2_CompleteOnlyWhenVerified ==
    \A i \in 1..Len(calls) :
        calls[i].op = "complete"
            => Return(total_sha) = sha256tree(file)

\* ---------------------------------------------------------------- C3
\* C3: when a run of upload_file fails after the session was initiated,
\* abort-multipart-upload has been invoked for the session's upload id.
C3_FailureAborts ==
    (pc = "raised" /\ muid # 0)
        => \E i \in 1..Len(calls) :
               calls[i].op = "abort" /\ calls[i].uploadId = muid

\* ---------------------------------------------------------------- C4
\* C4: the i-th upload-part call (from 0) carries the bytes [i*P, min((i+1)*P, S))
\* of the file and the range 'bytes i*P-(min((i+1)*P, S) - 1)/*', no call
\* carries an empty body, and once upload_parts has returned there were
\* exactly ceil(S/P) calls whose bodies, in order, make up the file.
C4_PartRanges ==
    LET ups == UploadPartCalls
        S == Len(file)
        P == psize
    IN  /\ \A i \in 1..Len(ups) :
               LET lo == (i - 1) * P
                   hi == Min(i * P, S)
               IN  /\ lo < hi
                   /\ ups[i].body = SubSeq(file, lo + 1, hi)
                   /\ ups[i].range =
                          "bytes " \o ToString(lo) \o "-" \o ToString(hi - 1) \o "/*"
        /\ (PartsReturned /\ S > 0)
               => /\ Len(ups) = CeilDiv(S, P)
                  /\ Bodies(ups, Len(ups)) = file

\* a file of 3 MiB was uploaded in parts of 1 MiB (MiB = 2 bytes here)
C4_Witness ==
    /\ pc = "combining"
    /\ psize = MiB
    /\ Len(file) = 3 * MiB
    /\ [i \in 1..Len(UploadPartCalls) |-> UploadPartCalls[i].range]
           = <<"bytes 0-1/*", "bytes 2-3/*", "bytes 4-5/*">>

\* ---------------------------------------------------------------- C5
\* the offset the k-th upload-part call starts at when the parts follow each
\* other from offset 0
OffsetAfter(k) == Len(Bodies(UploadPartCalls, k))

C5_CallOrder ==
    /\ \A i \in 1..Len(calls) :
           /\ (calls[i].op = "initiate") <=> (i = 1)
           /\ calls[i].op = "complete" => i = Len(calls)
           /\ calls[i].op \in {"initiate", "upload_part", "complete"}
           /\ i > 1 => calls[1].ok
    /\ \A k \in 1..Len(UploadPartCalls) :
           /\ OffsetAfter(k - 1) < OffsetAfter(k)
           /\ UploadPartCalls[k].range =
                  "bytes " \o ToString(OffsetAfter(k - 1)) \o "-"
                      \o ToString(OffsetAfter(k) - 1) \o "/*"
    /\ Len(CompleteCalls) <= 1

C5_PcStep ==
    pc' # pc =>
        \/ <<pc, pc'>> \in {<<"idle", "initiated">>, <<"initiated", "uploading">>,
                            <<"uploading", "combining">>, <<"combining", "closing">>,
                            <<"closing", "completed">>}
        \/ pc # "completed" /\ pc' = "raised"

\* the remote call a step makes, if any, matches the state it is made in
C5_CallStep ==
    calls' # calls =>
        /\ Len(calls') = Len(calls) + 1
        /\ LET op == calls'[Len(calls')].op
           IN  \/ op = "initiate" /\ pc = "idle"
               \/ op = "upload_part" /\ pc = "uploading"
               \/ op = "complete" /\ pc = "closing"

\* C5: initiate is called exactly once and first, then the upload-part calls
\* in increasing offset order starting at offset 0, then complete at most
\* once and last; the run moves idle -> initiated -> uploading -> combining
\* -> closing -> completed without skipping a state (or leaves to raised),
\* one remote call per step.
C5_Sequential == [](C5_CallOrder) /\ [][C5_PcStep /\ C5_CallStep]_vars

\* a run of three parts has completed
C5_Witness ==
    /\ pc = "completed"
    /\ Len(calls) = 5
    /\ calls[5].op = "complete"

C7_CombineNeverEmpty == pc = "combining" => shas # <<>>

\* ---------------------------------------------------------------- C8
\* the call of sha256tree or combine_sha256 has ended
HashDone == cpc \in {"returned", "raised"}

\* C8: combine_sha256 of an empty list ends in an error (IndexError, the
\* EmptyInput outcome) and returns no hash, and so does sha256tree of an
\* empty byte source.
C8_EmptyInputRaises ==
    /\ cpc = "returned" => hashlist # <<>>
    /\ (HashDone /\ thing[1] # "other" /\ hashlist = <<>>)
           => cresult = Raise("IndexError")
    /\ (HashDone /\ thing[1] \in {"bytes", "stream", "file"} /\ thing[2] = <<>>)
           => /\ hashlist = <<>>
              /\ IsRaise(cresult)

\* sha256tree of an empty bytes object has ended in the error
C8_Witness ==
    /\ cpc = "raised"
    /\ thing = <<"bytes", <<>>>>
    /\ hashlist = <<>>
    /\ cresult = Raise("IndexError")

\* ---------------------------------------------------------------- C9
\* a round over an odd level pairs the nodes before the last one and carries
\* the last one over as it is
C9_OddRound ==
    (cpc = "combine_sha256" /\ output' # output /\ Len(output) % 2 = 1)
        => /\ Len(output') = (Len(output) + 1) \div 2
           /\ output'[Len(output')] = output[Len(output)]
           /\ \A i \in 1..(Len(output') - 1) :
                  output'[i] = sha256cat(output[2 * i - 1], output[2 * i])

C9_Three ==
    (cpc = "returned" /\ Len(hashlist) = 3)
        => LET h12 == sha256cat(hashlist[1], hashlist[2])
           IN  /\ cresult = Return(sha256cat(h12, hashlist[3]))
               /\ cresult = combine_sha256(<<h12, hashlist[3]>>)

\* C9: every round of combine_sha256 over an odd level of more than one
\* hash carries the last node unchanged into the next level, and
\* combine([h1,h2,h3]) = combine([hash(h1++h2), h3]) = hash(hash(h1++h2) ++ h3).
C9_OddCarried == [](C9_Three) /\ [][C9_OddRound]_vars

\* combine_sha256 of three hashes has returned after two rounds
C9_Witness ==
    /\ cpc = "returned"
    /\ thing = None
    /\ Len(hashlist) = 3
    /\ rounds = 2

\* ---------------------------------------------------------------- C10
\* C10: combine_sha256([h1, h2]) is the hash of h1's digest followed by
\* h2's digest, and for h1 # h2 it differs from combine_sha256([h2, h1]).
C10_LeftBeforeRight ==
    (cpc = "returned" /\ Len(hashlist) = 2)
        => LET h1 == hashlist[1]
               h2 == hashlist[2]
           IN  /\ cresult = Return(sha256cat(h1, h2))
               /\ h1 # h2 => cresult # combine_sha256(<<h2, h1>>)

\* combine_sha256 of two different hashes has returned
C10_Witness ==
    /\ cpc = "returned"
    /\ thing = None
    /\ Len(hashlist) = 2
    /\ hashlist[1] # hashlist[2]
    /\ rounds = 1

\* ---------------------------------------------------------------- C11
\* C11: combine_sha256([h]) returns h itself after zero rounds of the loop.
C11_SingleIsIdentity ==
    (cpc = "returned" /\ Len(hashlist) = 1)
        => /\ cresult = Return(hashlist[1])
           /\ rounds = 0
           /\ output = hashlist

\* combine_sha256 of a single hash has returned
C11_Witness ==
    /\ cpc = "returned"
    /\ thing = None
    /\ Len(hashlist) = 1
    /\ cresult = Return(hashlist[1])

\* ---------------------------------------------------------------- C12
\* C12: when the initiate call fails, upload_file ends at once with the
\* error: the failed initiate stays the only remote call of the run (no
\* upload-part, complete or abort call) and the file is never opened.
C12_InitiateFailureIsFatal ==
    (calls # <<>> /\ ~calls[1].ok)
        => /\ Len(calls) = 1
           /\ calls[1].op = "initiate"
           /\ pc = "raised"
           /\ result = Raise("RemoteError")
           /\ muid = 0
           /\ opens = 0
           /\ handles = 0

\* the initiate call of a run over a non-empty file has failed
C12_Witness ==
    /\ pc = "raised"
    /\ Len(file) > 0
    /\ Len(calls) = 1
    /\ calls[1].op = "initiate"
    /\ ~calls[1].ok
    /\ opens = 0

\* ---------------------------------------------------------------- C13
\* C13: on a successful run every upload-part call and the complete call
\* carry the upload id the initiate call returned; complete is called exactly
\* once, with the hex form of the root combined from the hashes sent with the
\* parts and with the file size, which is the sum of the lengths of the
\* part bodies.
C13_CompleteArguments ==
    pc = "completed"
        => LET ups == UploadPartCalls
               done == CompleteCalls
           IN  /\ calls[1].op = "initiate"
               /\ calls[1].ok
               /\ calls[1].returned \in UploadIds
               /\ \A i \in 2..Len(calls) : calls[i].uploadId = calls[1].returned
               /\ Len(done) = 1
               /\ done[1].ok
               /\ Len(shas) = Len(ups)
               /\ \A i \in 1..Len(ups) : ups[i].checksum = hexdigest(shas[i])
               /\ shas # <<>>
               /\ done[1].checksum = hexdigest(combine_sha256(shas)[2])
               /\ done[1].archiveSize = ToString(Len(file))
               /\ Len(file) = Len(Bodies(ups, Len(ups)))

\* a run of three parts, the last one short, has completed
C13_Witness ==
    /\ pc = "completed"
    /\ Len(UploadPartCalls) = 3
    /\ Len(file) < 3 * psize
    /\ CompleteCalls[1].archiveSize = ToString(Len(file))
    /\ CompleteCalls[1].uploadId = calls[1].returned

\* ---------------------------------------------------------------- C14
\* C14: a call of abort_uploads lists the open multipart uploads of the
\* vault and, when it has returned, has invoked abort exactly once for each
\* listed upload id, so that no upload that was open is left open.
C14_AbortsEveryOpenUpload ==
    /\ apc \in {"returned", "raised"}
           => /\ acalls # <<>>
              /\ acalls[1].op = "list"
    /\ apc = "returned"
           => /\ sessions = {}
              /\ Len(acalls) = Len(mpus) + 1
              /\ \A i \in 1..Len(mpus) :
                     /\ acalls[i + 1].op = "abort"
                     /\ acalls[i + 1].uploadId = mpus[i].MultipartUploadId

\* ---------------------------------------------------------------- C15
\* upload_parts has been entered in this run
PartsEntered ==
    \/ pc \in {"uploading", "combining", "closing", "completed"}
    \/ pc = "raised" /\ calls[1].ok

\* C15: at most one file handle is open at any point; upload_parts opens
\* the file exactly once and holds the handle only while its loop runs: it
\* has released it when it has returned and when it has failed part-way;
\* the path variant of sha256tree opens its file once and has released it
\* when the call has ended.
C15_OneHandleReleased ==
    /\ handles \in {0, 1}
    /\ opens \in {0, 1}
    /\ pc # "none"
           => /\ handles = 1 <=> pc = "uploading"
              /\ opens = 1 <=> PartsEntered
    /\ cpc # "none"
           => /\ handles = 1 <=> (~HashDone /\ thing[1] = "file")
              /\ opens = 1 <=> thing[1] = "file"

\* the second upload-part call of a run has failed and the handle is released
C15_Witness ==
    /\ pc = "raised"
    /\ Len(UploadPartCalls) = 2
    /\ ~UploadPartCalls[2].ok
    /\ opens = 1
    /\ handles = 0

\* ---------------------------------------------------------------- C16
\* the tree hashes of the parts of p bytes of the byte string b, from pos on
RECURSIVE PartHashes(_, _, _)
PartHashes(b, pos, p) ==
    LET c == read(b, pos, p)
    IN  IF c = <<>> THEN <<>>
        ELSE <<sha256tree(c)[2]>> \o PartHashes(b, pos + Len(c), p)

\* C16: the checksum sent to complete is a function of the file's bytes and
\* the part size alone (the hex form of the root of the parts' tree hashes),
\* whatever checksums the upload-part responses returned: two runs over the
\* same file and part size send the same checksum.
C16_ChecksumFromFileOnly ==
    \A i \in 1..Len(calls) :
        calls[i].op = "complete"
            => calls[i].checksum
                   = hexdigest(combine_sha256(PartHashes(file, 0, psize))[2])

\* a run has completed in which a response returned another checksum than
\* the one sent, which was logged
C16_Witness ==
    /\ pc = "completed"
    /\ \E i \in 1..Len(tsvlog) : tsvlog[i].checksum # UploadPartCalls[i].checksum
    /\ \E i \in 1..Len(tsvlog) : tsvlog[i].checksum = UploadPartCalls[i].checksum

\* ---------------------------------------------------------------- C17
\* the least k with 2^k >= n
CeilLog2(n) == CHOOSE k \in 0..n : 2 ^ k >= n /\ (k = 0 \/ 2 ^ (k - 1) < n)

\* the loop runs over a non-empty input
Combining == cpc = "combine_sha256" /\ Len(hashlist) >= 1

C17_Levels ==
    /\ Combining
           => /\ Len(output) >= 1
              /\ rounds <= CeilLog2(Len(hashlist))
              /\ Len(output) = 1 <=> rounds = CeilLog2(Len(hashlist))
    /\ (cpc = "returned" /\ Len(hashlist) >= 1)
           => /\ rounds = CeilLog2(Len(hashlist))
              /\ Len(output) = 1
              /\ cresult = Return(output[1])

C17_Round ==
    (cpc = "combine_sha256" /\ output' # output)
        => /\ Len(output) > 1
           /\ Len(output') = CeilDiv(Len(output), 2)
           /\ rounds' = rounds + 1

\* C17: over a non-empty input of n hashes each round of combine_sha256
\* turns a level of m > 1 nodes into one of ceil(m/2) nodes, and the call
\* ends: it returns, after exactly ceil(log2 n) rounds, the one node left.
C17_Terminates ==
    /\ [](C17_Levels)
    /\ [][C17_Round]_vars
    /\ Combining ~> (cpc = "returned")

\* combine_sha256 of five hashes has returned after three rounds
C17_Witness ==
    /\ cpc = "returned"
    /\ Len(hashlist) = 5
    /\ rounds = 3
    /\ Len(output) = 1

\* ---------------------------------------------------------------- C18
\* the input hashes under the node h, left to right (an input hash is the
\* hash of a byte string, a node the hash of two digests)
RECURSIVE Leaves(_)
Leaves(h) == IF Len(h) = 3 THEN Leaves(h[2]) \o Leaves(h[3]) ELSE <<h>>

\* the input hashes under the first k nodes of a level, left to right
RECURSIVE Covered(_, _)
Covered(level, k) ==
    IF k = 0 THEN <<>> ELSE Covered(level, k - 1) \o Leaves(level[k])

\* C18: at every level of combine_sha256 the input hashes under the level's
\* nodes, read left to right, are exactly the input list, and the root
\* returned covers exactly the input list: nothing dropped, duplicated or
\* reordered.
C18_LevelsCoverInput ==
    /\ cpc \in {"combine_sha256", "returned"}
           => Covered(output, Len(output)) = hashlist
    /\ cpc = "returned" => Leaves(cresult[2]) = hashlist

\* combine_sha256 of five hashes, not all equal, is at its second level
C18_Witness ==
    /\ cpc = "combine_sha256"
    /\ Len(hashlist) = 5
    /\ hashlist[1] # hashlist[2]
    /\ hashlist[4] # hashlist[5]
    /\ rounds = 1
    /\ Len(output) = 3

=============================================================================
